---------------------------- MODULE Spec2Model ----------------------------
(***************************************************************************)
(* Model of the order validation and dispatch logic of src/bot.py          *)
(* (class BasicBot and the command line entry point main).                 *)
(*                                                                         *)
(* One behaviour is one invocation of an entry point: a programmatic call  *)
(* of BasicBot.place_order, a call of BasicBot.get_account_balance, or one *)
(* run of main.  The exchange client is an external collaborator: each of  *)
(* its calls is recorded in `calls` and answers nondeterministically (a    *)
(* response or a raised exception).  Every logger call is recorded in      *)
(* `log`.                                                                  *)
(***************************************************************************)
EXTENDS Integers, Sequences, FiniteSets, TLC

VARIABLES
    entry,          \* which entry point this behaviour runs
    args,           \* main: the parsed command line (argparse namespace)
    req,            \* the arguments of the place_order call
    pc,             \* position in the code
    validated,      \* what validate_inputs returned: "pending", "True", "False"
    checks_done,    \* the checks validate_inputs has evaluated, in order
    exchange_info,  \* what client.futures_exchange_info() answered
    order_type,     \* place_order's local order_type after .upper()
    created,        \* what client.futures_create_order() answered
    result,         \* the value place_order returned
    balance_resp,   \* get_account_balance's local: what futures_account_balance() answered
    balance,        \* the value get_account_balance returned
    confirmation,   \* main: the answer read by input()
    status,         \* the value get_order_status returned
    log,            \* the logger's lines, in order
    calls,          \* the calls made to the outside (exchange client, input()), in order
    raised          \* the exception that escaped the entry point ("" if none)

vars == <<entry, args, req, pc, validated, checks_done, exchange_info, order_type,
          created, result, balance_resp, balance, confirmation, status, log,
          calls, raised>>

---------------------------------------------------------------------------
(* Bounds of the model *)

\* numbers range over -1 .. MaxNum, plus NaN
MaxNum == 1
\* longest instrument list the exchange returns
MaxSymbols == 2
\* longest balance list the exchange returns
MaxBalances == 2
\* order ids the exchange hands out: 1 .. MaxOrderId
MaxOrderId == 1

---------------------------------------------------------------------------
(* Python values *)

\* A float, or None.  NaN is a float that is unordered with every number.
PyNone == [t |-> "None", v |-> 0]
NaN == [t |-> "nan", v |-> 0]
Num(n) == [t |-> "num", v |-> n]

Floats == {Num(n) : n \in -1..MaxNum} \cup {NaN}

\* x <= y on floats: False as soon as one side is NaN
PyLe(x, y) == x.t = "num" /\ y.t = "num" /\ x.v <= y.v

\* bool(x) of a float or None: None and 0.0 are falsy, NaN is truthy
PyTruthy(x) == x.t = "nan" \/ (x.t = "num" /\ x.v # 0)

\* Strings that the code changes the case of are sequences of characters.
LowerLetters == <<"a","b","c","d","e","f","g","h","i","j","k","l","m",
                  "n","o","p","q","r","s","t","u","v","w","x","y","z">>
UpperLetters == <<"A","B","C","D","E","F","G","H","I","J","K","L","M",
                  "N","O","P","Q","R","S","T","U","V","W","X","Y","Z">>

UpperChar(c) ==
    IF \E i \in 1..26 : LowerLetters[i] = c
    THEN UpperLetters[CHOOSE i \in 1..26 : LowerLetters[i] = c]
    ELSE c

LowerChar(c) ==
    IF \E i \in 1..26 : UpperLetters[i] = c
    THEN LowerLetters[CHOOSE i \in 1..26 : UpperLetters[i] = c]
    ELSE c

\* str.upper() and str.lower()
Upper(s) == [i \in 1..Len(s) |-> UpperChar(s[i])]
Lower(s) == [i \in 1..Len(s) |-> LowerChar(s[i])]

BUY == <<"B","U","Y">>
SELL == <<"S","E","L","L">>
MARKET == <<"M","A","R","K","E","T">>
LIMIT == <<"L","I","M","I","T">>
STOP_LIMIT == <<"S","T","O","P","_","L","I","M","I","T">>
STOP == <<"S","T","O","P">>
GTC == <<"G","T","C">>

valid_sides == {BUY, SELL}
valid_types == {MARKET, LIMIT, STOP_LIMIT}

---------------------------------------------------------------------------
(* Inputs *)

Sides == {BUY, SELL, <<"b","u","y">>, <<"S","e","l","l">>, <<"H","O","L","D">>}
OrderTypes == {MARKET, LIMIT, STOP_LIMIT, <<"l","i","m","i","t">>,
               <<"S","t","o","p","_","L","i","m","i","t">>, STOP}
ListedSymbols == {"BTCUSDT", "ETHUSDT"}
Symbols == ListedSymbols \cup {"FOOUSDT"}

\* **kwargs of place_order: any subset of the two keys, each a float
Kwargs == UNION {[D -> Floats] : D \in SUBSET {"price", "stop_price"}}

Requests == [symbol : Symbols, side : Sides, order_type : OrderTypes,
             quantity : Floats, kwargs : Kwargs]

NoRequest == [symbol |-> "", side |-> <<>>, order_type |-> <<>>,
              quantity |-> PyNone, kwargs |-> <<>>]

\* What an exchange call can raise: subclasses of Exception.
Exceptions == {"BinanceAPIException", "BinanceOrderException", "ConnectionError"}

SeqsUpTo(S, n) == UNION {[1..k -> S] : k \in 0..n}

---------------------------------------------------------------------------
(* The exchange's answers *)

\* futures_exchange_info(): raises, answers without a 'symbols' key, or
\* answers {'symbols': [{'symbol': ...}, ...]}
ExchangeInfoResponses ==
    {[t |-> "raise", exc |-> e, symbols |-> <<>>] : e \in Exceptions}
    \cup {[t |-> "nokey", exc |-> "", symbols |-> <<>>]}
    \cup {[t |-> "ok", exc |-> "", symbols |-> l] :
            l \in SeqsUpTo({[symbol |-> s] : s \in ListedSymbols}, MaxSymbols)}

NoResponse == [t |-> "none", exc |-> ""]

\* an order record of the exchange, or None
PyNoneOrder == [t |-> "None", orderId |-> 0, status |-> ""]
Orders == [t : {"dict"}, orderId : 1..MaxOrderId, status : {"NEW", "FILLED"}]
Unset == [t |-> "unset", orderId |-> 0, status |-> ""]

\* futures_create_order(...) and futures_get_order(...): raise or answer an order
OrderResponses ==
    {[t |-> "raise", exc |-> e, order |-> PyNoneOrder] : e \in Exceptions}
    \cup {[t |-> "ok", exc |-> "", order |-> o] : o \in Orders}

NoBalances == [t |-> "none", exc |-> "", items |-> <<>>]

\* futures_account_balance(): raises or answers [{'asset': ..., 'balance': '...'}, ...]
Assets == {"USDT", "BNB"}
BalanceStrings == {<<"0">>, <<"7">>, <<"1","2">>}
BalanceItems == [asset : Assets, balance : BalanceStrings]
BalanceResponses ==
    {[t |-> "raise", exc |-> e, items |-> <<>>] : e \in Exceptions}
    \cup {[t |-> "ok", exc |-> "", items |-> l] : l \in SeqsUpTo(BalanceItems, MaxBalances)}

---------------------------------------------------------------------------
(* Logging and calls *)

\* a log line: its level, the method that wrote it, its message (without the
\* values formatted into it)
Error(src, msg) == [level |-> "ERROR", src |-> src, msg |-> msg]
Info(src, msg) == [level |-> "INFO", src |-> src, msg |-> msg]

Call(op, a) == [op |-> op, args |-> a]

\* where control goes when place_order returns
AfterPlaceOrder == IF entry = "main" THEN "m_result" ELSE "done"

---------------------------------------------------------------------------
(* validate_inputs, one check per step *)

SideOk(side) == Upper(side) \in valid_sides

TypeOk(type) == Upper(type) \in valid_types

\* mutant of QuantityOk: rejects only negative quantities (< for <=)
QuantityOk_AllowsZero(quantity) == ~(quantity.t = "num" /\ quantity.v < 0)

QuantityOk(quantity) == ~PyLe(quantity, Num(0))

\* mutant of SymbolCheck: a failed lookup lets the symbol through
SymbolCheck_FailsOpen(symbol, info) ==
    IF info.t = "raise" \/ info.t = "nokey"
    THEN "ok"
    ELSE IF \E i \in 1..Len(info.symbols) : info.symbols[i].symbol = symbol
    THEN "ok"
    ELSE "Invalid symbol"

\* the symbol check: "ok", or the message of the error it logs
SymbolCheck(symbol, info) ==
    IF info.t = "raise" \/ info.t = "nokey"
    THEN "Error validating symbol"
    ELSE LET symbols == [i \in 1..Len(info.symbols) |-> info.symbols[i].symbol]
         IN IF \E i \in 1..Len(symbols) : symbols[i] = symbol
            THEN "ok"
            ELSE "Invalid symbol"

PriceOk(type, kwargs) ==
    IF Upper(type) \in {LIMIT, STOP_LIMIT}
    THEN IF "price" \notin DOMAIN kwargs THEN FALSE
         ELSE ~PyLe(kwargs["price"], Num(0))
    ELSE TRUE

StopPriceOk(type, kwargs) ==
    IF Upper(type) = STOP_LIMIT
    THEN IF "stop_price" \notin DOMAIN kwargs THEN FALSE
         ELSE ~PyLe(kwargs["stop_price"], Num(0))
    ELSE TRUE

\* a check failed: log the reason, return False to place_order
Reject(check, msg) ==
    /\ checks_done' = Append(checks_done, check)
    /\ log' = Append(log, Error("validate_inputs", msg))
    /\ validated' = "False"
    /\ pc' = "po_check"

\* a check passed: go on with the next one
Pass(check, next) ==
    /\ checks_done' = Append(checks_done, check)
    /\ log' = log
    /\ validated' = validated
    /\ pc' = next

validate_side ==
    /\ pc = "v_side"
    /\ IF ~SideOk(req.side) THEN Reject("side", "Invalid side")
       ELSE Pass("side", "v_type")
    /\ UNCHANGED <<entry, args, req, exchange_info, order_type, created, result,
                   balance_resp, balance, confirmation, status, calls, raised>>

validate_order_type ==
    /\ pc = "v_type"
    /\ IF ~TypeOk(req.order_type) THEN Reject("order_type", "Invalid order type")
       ELSE Pass("order_type", "v_quantity")
    /\ UNCHANGED <<entry, args, req, exchange_info, order_type, created, result,
                   balance_resp, balance, confirmation, status, calls, raised>>

validate_quantity ==
    /\ pc = "v_quantity"
    /\ IF ~QuantityOk(req.quantity) THEN Reject("quantity", "Quantity must be positive")
       ELSE Pass("quantity", "v_symbol")
    /\ UNCHANGED <<entry, args, req, exchange_info, order_type, created, result,
                   balance_resp, balance, confirmation, status, calls, raised>>

validate_symbol ==
    /\ pc = "v_symbol"
    /\ \E info \in ExchangeInfoResponses :
        /\ exchange_info' = info
        /\ calls' = Append(calls, Call("futures_exchange_info", <<>>))
        /\ LET r == SymbolCheck(req.symbol, info)
           IN IF r # "ok" THEN Reject("symbol", r) ELSE Pass("symbol", "v_price")
    /\ UNCHANGED <<entry, args, req, order_type, created, result,
                   balance_resp, balance, confirmation, status, raised>>

validate_price ==
    /\ pc = "v_price"
    /\ IF ~PriceOk(req.order_type, req.kwargs)
       THEN Reject("price", "Limit price required for LIMIT and STOP_LIMIT orders")
       ELSE Pass("price", "v_stop_price")
    /\ UNCHANGED <<entry, args, req, exchange_info, order_type, created, result,
                   balance_resp, balance, confirmation, status, calls, raised>>

\* the last check: on success validate_inputs returns True
validate_stop_price ==
    /\ pc = "v_stop_price"
    /\ checks_done' = Append(checks_done, "stop_price")
    /\ IF ~StopPriceOk(req.order_type, req.kwargs)
       THEN /\ log' = Append(log, Error("validate_inputs", "Stop price required for STOP_LIMIT orders"))
            /\ validated' = "False"
       ELSE /\ log' = log
            /\ validated' = "True"
    /\ pc' = "po_check"
    /\ UNCHANGED <<entry, args, req, exchange_info, order_type, created, result,
                   balance_resp, balance, confirmation, status, calls, raised>>

---------------------------------------------------------------------------
(* The three placement operations *)

\* the keyword arguments each operation passes to futures_create_order
MarketArgs(symbol, side, quantity) ==
    [symbol |-> symbol, side |-> side, type |-> MARKET, quantity |-> quantity]

\* mutant of LimitArgs: the time-in-force argument is left out
LimitArgs_NoTimeInForce(symbol, side, quantity, price) ==
    [symbol |-> symbol, side |-> side, type |-> LIMIT, quantity |-> quantity,
     price |-> price]

LimitArgs(symbol, side, quantity, price) ==
    [symbol |-> symbol, side |-> side, type |-> LIMIT, quantity |-> quantity,
     price |-> price, timeInForce |-> GTC]

StopLimitArgs(symbol, side, quantity, price, stop_price) ==
    [symbol |-> symbol, side |-> side, type |-> STOP, quantity |-> quantity,
     price |-> price, stopPrice |-> stop_price, timeInForce |-> GTC]

\* isinstance(exc, cls) for the exception classes of the model
IsInstance(exc, cls) == cls = exc \/ cls = "Exception"

\* mutant of ExceptClauses: the catch-all clause is written first
ExceptClauses_GenericFirst ==
    <<[cls |-> "Exception", msg |-> "Unexpected error"],
      [cls |-> "BinanceAPIException", msg |-> "Binance API Error"],
      [cls |-> "BinanceOrderException", msg |-> "Binance Order Error"]>>

\* the except clauses of a placement operation, in the order written
ExceptClauses ==
    <<[cls |-> "BinanceAPIException", msg |-> "Binance API Error"],
      [cls |-> "BinanceOrderException", msg |-> "Binance Order Error"],
      [cls |-> "Exception", msg |-> "Unexpected error"]>>

\* the message logged for exception exc: that of the first clause matching it
\* ("" when no clause matches and the exception propagates)
ErrorCategory(exc) ==
    IF \E i \in 1..Len(ExceptClauses) : IsInstance(exc, ExceptClauses[i].cls)
    THEN ExceptClauses[CHOOSE i \in 1..Len(ExceptClauses) :
                          /\ IsInstance(exc, ExceptClauses[i].cls)
                          /\ \A j \in 1..(i-1) : ~IsInstance(exc, ExceptClauses[j].cls)].msg
    ELSE ""

\* mutant of Returned: the order is logged but not returned
Returned_DropsOrder(resp) == PyNoneOrder

\* the value a placement operation returns for the answer of create_order
Returned(resp) == IF resp.t = "ok" THEN resp.order ELSE PyNoneOrder

\* the body shared by the three operations: one info line, one create_order
\* call, then the success line and the order, or the error line and None
Place(kind, a) ==
    \E resp \in OrderResponses :
        /\ calls' = Append(calls, Call("futures_create_order", a))
        /\ created' = resp
        /\ IF resp.t = "ok"
           THEN /\ log' = log \o <<Info(kind, "Placing order"),
                                   Info(kind, "order placed successfully")>>
                /\ raised' = raised
           ELSE IF ErrorCategory(resp.exc) # ""
           THEN /\ log' = log \o <<Info(kind, "Placing order"),
                                   Error(kind, ErrorCategory(resp.exc))>>
                /\ raised' = raised
           ELSE /\ log' = Append(log, Info(kind, "Placing order"))
                /\ raised' = resp.exc
        /\ result' = Returned(resp)
        /\ pc' = AfterPlaceOrder

place_market_order ==
    /\ pc = "market"
    /\ Place("place_market_order", MarketArgs(req.symbol, req.side, req.quantity))
    /\ UNCHANGED <<entry, args, req, validated, checks_done, exchange_info,
                   order_type, balance_resp, balance, confirmation, status>>

place_limit_order ==
    /\ pc = "limit"
    /\ Place("place_limit_order",
             LimitArgs(req.symbol, req.side, req.quantity, req.kwargs["price"]))
    /\ UNCHANGED <<entry, args, req, validated, checks_done, exchange_info,
                   order_type, balance_resp, balance, confirmation, status>>

place_stop_limit_order ==
    /\ pc = "stop_limit"
    /\ Place("place_stop_limit_order",
             StopLimitArgs(req.symbol, req.side, req.quantity,
                           req.kwargs["price"], req.kwargs["stop_price"]))
    /\ UNCHANGED <<entry, args, req, validated, checks_done, exchange_info,
                   order_type, balance_resp, balance, confirmation, status>>

---------------------------------------------------------------------------
(* place_order *)

\* mutant of Proceeds: the outcome of validate_inputs is not looked at
Proceeds_IgnoresOutcome(v) == TRUE

\* place_order goes on to a placement operation only if validate_inputs returned True
Proceeds(v) == v = "True"

\* the branch place_order takes for the upper-cased order type: the placement
\* operation it calls, or the message of the error it logs before returning None
Dispatch(type, kwargs) ==
    IF type = MARKET THEN "market"
    ELSE IF type = LIMIT
    THEN IF "price" \notin DOMAIN kwargs THEN "Price required for limit orders"
         ELSE "limit"
    ELSE IF type = STOP_LIMIT
    THEN IF "price" \notin DOMAIN kwargs \/ "stop_price" \notin DOMAIN kwargs
         THEN "Price and stop_price required for stop-limit orders"
         ELSE "stop_limit"
    ELSE "Unsupported order type"

place_order ==
    /\ pc = "po_check"
    /\ IF ~Proceeds(validated)
       THEN /\ result' = PyNoneOrder
            /\ pc' = AfterPlaceOrder
            /\ UNCHANGED <<order_type, log>>
       ELSE /\ order_type' = Upper(req.order_type)
            /\ LET d == Dispatch(order_type', req.kwargs)
               IN IF d \in {"market", "limit", "stop_limit"}
                  THEN /\ pc' = d
                       /\ UNCHANGED <<result, log>>
                  ELSE /\ log' = Append(log, Error("place_order", d))
                       /\ result' = PyNoneOrder
                       /\ pc' = AfterPlaceOrder
    /\ UNCHANGED <<entry, args, req, validated, checks_done, exchange_info, created,
                   balance_resp, balance, confirmation, status, calls, raised>>

---------------------------------------------------------------------------
(* get_account_balance and get_order_status *)

Digits == <<"0","1","2","3","4","5","6","7","8","9">>
DigitVal(c) == (CHOOSE i \in 1..10 : Digits[i] = c) - 1

\* float(s) of a string of decimal digits
RECURSIVE ParseDigits(_)
ParseDigits(s) ==
    IF Len(s) = 0 THEN 0
    ELSE 10 * ParseDigits(SubSeq(s, 1, Len(s) - 1)) + DigitVal(s[Len(s)])

PyFloat(s) == Num(ParseDigits(s))

\* mutant of FirstUSDT: the last USDT item instead of the first
FirstUSDT_TakesLast(items) ==
    IF \E i \in 1..Len(items) : items[i].asset = "USDT"
    THEN CHOOSE i \in 1..Len(items) :
            /\ items[i].asset = "USDT"
            /\ \A j \in (i+1)..Len(items) : items[j].asset # "USDT"
    ELSE 0

\* next((item for item in balance if item['asset'] == 'USDT'), None): the
\* index of the first USDT item, 0 for None
FirstUSDT(items) ==
    IF \E i \in 1..Len(items) : items[i].asset = "USDT"
    THEN CHOOSE i \in 1..Len(items) :
            /\ items[i].asset = "USDT"
            /\ \A j \in 1..(i-1) : items[j].asset # "USDT"
    ELSE 0

\* the value get_account_balance returns for the exchange's answer
BalanceOf(resp) ==
    IF resp.t = "raise" THEN Num(0)
    ELSE IF FirstUSDT(resp.items) # 0
    THEN PyFloat(resp.items[FirstUSDT(resp.items)].balance)
    ELSE Num(0)

AfterBalance == IF entry = "main" THEN "m_confirm" ELSE "done"

\* line 240: the call to the exchange; its answer is the local `balance`
get_account_balance ==
    /\ pc = "gab"
    /\ \E resp \in BalanceResponses :
        /\ balance_resp' = resp
        /\ calls' = Append(calls, Call("futures_account_balance", <<>>))
    /\ pc' = "gab_return"
    /\ UNCHANGED <<entry, args, req, validated, checks_done, exchange_info, order_type,
                   created, result, balance, confirmation, status, log, raised>>

\* lines 241-248: pick the USDT item, log, return; the local goes out of scope
get_account_balance_return ==
    /\ pc = "gab_return"
    /\ balance' = BalanceOf(balance_resp)
    /\ log' = IF balance_resp.t = "raise"
              THEN Append(log, Error("get_account_balance", "Error getting balance"))
              ELSE IF FirstUSDT(balance_resp.items) # 0
              THEN Append(log, Info("get_account_balance", "USDT Balance"))
              ELSE log
    /\ balance_resp' = NoBalances
    /\ pc' = AfterBalance
    /\ UNCHANGED <<entry, args, req, validated, checks_done, exchange_info, order_type,
                   created, result, confirmation, status, calls, raised>>

---------------------------------------------------------------------------
(* main *)

Args == [symbol : Symbols, side : valid_sides, order_type : valid_types,
         quantity : Floats, price : Floats \cup {PyNone},
         stop_price : Floats \cup {PyNone}]

NoArgs == [symbol |-> "", side |-> <<>>, order_type |-> <<>>, quantity |-> PyNone,
           price |-> PyNone, stop_price |-> PyNone]

\* order_params: price and stop_price are passed on only when truthy
OrderParams(a) ==
    [k \in {x \in {"price", "stop_price"} : PyTruthy(a[x])} |-> a[k]]

\* what the user may type at the prompt
Confirmations == {<<"y">>, <<"Y">>, <<"n">>, <<"y","e","s">>, <<>>}

\* mutant of Confirmed: anything but n goes ahead
Confirmed_NotNo(c) == Lower(c) # <<"n">>

\* the order goes ahead only on the answer y
Confirmed(c) == Lower(c) = <<"y">>

\* `if result:` on what place_order returned: None and {} are falsy
ResultTruthy(r) == r.t = "dict"

main_confirm ==
    /\ pc = "m_confirm"
    /\ \E c \in Confirmations :
        /\ confirmation' = c
        /\ calls' = Append(calls, Call("input", <<>>))
        /\ IF ~Confirmed(c)
           THEN /\ pc' = "done"
                /\ req' = req
           ELSE /\ pc' = "v_side"
                /\ req' = [symbol |-> args.symbol, side |-> args.side,
                           order_type |-> args.order_type,
                           quantity |-> args.quantity, kwargs |-> OrderParams(args)]
    /\ UNCHANGED <<entry, args, validated, checks_done, exchange_info, order_type,
                   created, result, balance_resp, balance, status, log, raised>>

\* the rest of main: report, and on success one get_order_status call
main_result ==
    /\ pc = "m_result"
    /\ IF ResultTruthy(result)
       THEN \E resp \in OrderResponses :
              /\ calls' = Append(calls, Call("futures_get_order",
                                  [symbol |-> args.symbol, orderId |-> result.orderId]))
              /\ status' = Returned(resp)
              /\ log' = IF resp.t = "ok"
                        THEN Append(log, Info("get_order_status", "Order status"))
                        ELSE Append(log, Error("get_order_status", "Error getting order status"))
       ELSE UNCHANGED <<calls, status, log>>
    /\ pc' = "done"
    /\ UNCHANGED <<entry, args, req, validated, checks_done, exchange_info, order_type,
                   created, result, balance_resp, balance, confirmation, raised>>

---------------------------------------------------------------------------
(* The specification *)

Init ==
    /\ entry \in {"place_order", "get_account_balance", "main"}
    /\ IF entry = "place_order"
       THEN req \in Requests /\ args = NoArgs /\ pc = "v_side"
       ELSE IF entry = "main"
       THEN req = NoRequest /\ args \in Args /\ pc = "gab"
       ELSE req = NoRequest /\ args = NoArgs /\ pc = "gab"
    /\ validated = "pending"
    /\ checks_done = <<>>
    /\ exchange_info = NoResponse
    /\ order_type = <<>>
    /\ created = NoResponse
    /\ result = Unset
    /\ balance_resp = NoBalances
    /\ balance = PyNone
    /\ confirmation = <<>>
    /\ status = Unset
    /\ log = <<>>
    /\ calls = <<>>
    /\ raised = ""

Next ==
    \/ validate_side
    \/ validate_order_type
    \/ validate_quantity
    \/ validate_symbol
    \/ validate_price
    \/ validate_stop_price
    \/ place_order
    \/ place_market_order
    \/ place_limit_order
    \/ place_stop_limit_order
    \/ get_account_balance
    \/ get_account_balance_return
    \/ main_confirm
    \/ main_result

Spec == Init /\ [][Next]_vars

---------------------------------------------------------------------------
(* Vocabulary of the properties *)

\* the positions of the create_order calls among the calls made so far
CreateCalls == {i \in 1..Len(calls) : calls[i].op = "futures_create_order"}

InfoCalls == {i \in 1..Len(calls) : calls[i].op = "futures_exchange_info"}

\* the error lines written by method src
ErrorLines(src) ==
    {i \in 1..Len(log) : log[i].level = "ERROR" /\ log[i].src = src}

\* the error lines written while place_order ran: by it, by validate_inputs
\* and by the placement operations
PlaceOrderErrorLines ==
    {i \in 1..Len(log) :
        /\ log[i].level = "ERROR"
        /\ log[i].src \notin {"get_account_balance", "get_order_status"}}

\* place_order has returned
PlaceOrderReturned == result # Unset

\* the spellings, among the inputs of the model, that are BUY or SELL, and
\* MARKET, LIMIT or STOP_LIMIT, when compared case-insensitively
BuySellSpellings == {BUY, SELL, <<"b","u","y">>, <<"S","e","l","l">>}
MarketSpellings == {MARKET}
LimitSpellings == {LIMIT, <<"l","i","m","i","t">>}
StopLimitSpellings == {STOP_LIMIT, <<"S","t","o","p","_","L","i","m","i","t">>}

\* x > 0 as a statement about numbers: false of NaN
Positive(x) == x.t = "num" /\ x.v > 0

\* x <= 0 as a statement about numbers: false of NaN
NonPositive(x) == x.t = "num" /\ x.v <= 0

\* the instrument lookup succeeded and lists the symbol
Listed(symbol) ==
    /\ exchange_info.t = "ok"
    /\ \E i \in 1..Len(exchange_info.symbols) : exchange_info.symbols[i].symbol = symbol

---------------------------------------------------------------------------
(* C1 *)

\* C1: a create_order call is issued only if validate_inputs returned True for
\* the request, and a request whose side is not BUY or SELL (case-insensitively)
\* makes place_order return None without any create_order call.
C1_DispatchOnlyIfValidated ==
    /\ CreateCalls # {} => validated = "True"
    /\ (req # NoRequest /\ req.side \notin BuySellSpellings) =>
          /\ CreateCalls = {}
          /\ PlaceOrderReturned => result = PyNoneOrder
          /\ pc \in {"v_side", "po_check", "done"}

C1_Witness ==
    /\ pc = "done"
    /\ entry = "place_order"
    /\ req.side = <<"H","O","L","D">>
    /\ req.order_type = MARKET
    /\ result = PyNoneOrder
    /\ CreateCalls = {}

---------------------------------------------------------------------------
(* C2 *)

\* the conditions C2 lists
C2_Conditions ==
    /\ req.side \in BuySellSpellings
    /\ req.order_type \in MarketSpellings \cup LimitSpellings \cup StopLimitSpellings
    /\ Positive(req.quantity)
    /\ Listed(req.symbol)
    /\ req.order_type \in LimitSpellings \cup StopLimitSpellings =>
          /\ "price" \in DOMAIN req.kwargs
          /\ Positive(req.kwargs["price"])
    /\ req.order_type \in StopLimitSpellings =>
          /\ "stop_price" \in DOMAIN req.kwargs
          /\ Positive(req.kwargs["stop_price"])

\* C2: validate_inputs returns True if and only if side, order type, quantity,
\* symbol, price and stop price all meet their conditions; so a quantity <= 0
\* and an unlisted symbol each yield failure whatever the other fields are.
C2_ValidIff ==
    validated # "pending" => (validated = "True" <=> C2_Conditions)

\* the request holds no NaN
Ordered(r) ==
    /\ r.quantity.t = "num"
    /\ \A k \in DOMAIN r.kwargs : r.kwargs[k].t = "num"

\* what does hold: the equivalence for requests whose numbers are all ordered,
\* and the two consequences for every request
C2_ValidIffOrdered ==
    /\ (validated # "pending" /\ Ordered(req)) => (validated = "True" <=> C2_Conditions)
    /\ (validated # "pending" /\ NonPositive(req.quantity)) => validated = "False"
    /\ (validated # "pending" /\ ~Listed(req.symbol)) => validated = "False"

---------------------------------------------------------------------------
(* C3 *)

\* the category C3 gives each exception
C3_Category(exc) ==
    CASE exc = "BinanceAPIException" -> "Binance API Error"
      [] exc = "BinanceOrderException" -> "Binance Order Error"
      [] OTHER -> "Unexpected error"

\* the placement operation of the request's order type
C3_Operation ==
    IF req.order_type \in MarketSpellings THEN "place_market_order"
    ELSE IF req.order_type \in LimitSpellings THEN "place_limit_order"
    ELSE "place_stop_limit_order"

\* C3: when create_order raises, the placement operation and place_order
\* return None, nothing propagates, and exactly one error line is logged, by
\* that operation and of the category of the exception.
C3_RaiseBecomesNone ==
    created.t = "raise" =>
        /\ result = PyNoneOrder
        /\ raised = ""
        /\ Cardinality(PlaceOrderErrorLines) = 1
        /\ \A i \in PlaceOrderErrorLines :
              log[i] = Error(C3_Operation, C3_Category(created.exc))

C3_Witness ==
    /\ pc = "done"
    /\ created.t = "raise"
    /\ created.exc = "BinanceOrderException"
    /\ req.order_type \in StopLimitSpellings
    /\ result = PyNoneOrder

---------------------------------------------------------------------------
(* C4 *)

\* C4: every create_order call carries exactly the fields of the request's
\* order type, with the request's symbol, side, quantity, price and stop price.
C4_FieldsPerType ==
    \A i \in CreateCalls :
        LET a == calls[i].args
        IN /\ a.symbol = req.symbol
           /\ a.side = req.side
           /\ a.quantity = req.quantity
           /\ req.order_type \in MarketSpellings =>
                 /\ DOMAIN a = {"symbol", "side", "type", "quantity"}
                 /\ a.type = MARKET
           /\ req.order_type \in LimitSpellings =>
                 /\ DOMAIN a = {"symbol", "side", "type", "quantity", "price",
                                "timeInForce"}
                 /\ a.type = LIMIT
                 /\ a.price = req.kwargs["price"]
                 /\ a.timeInForce = GTC
           /\ req.order_type \in StopLimitSpellings =>
                 /\ DOMAIN a = {"symbol", "side", "type", "quantity", "price",
                                "stopPrice", "timeInForce"}
                 /\ a.type = STOP
                 /\ a.price = req.kwargs["price"]
                 /\ a.stopPrice = req.kwargs["stop_price"]
                 /\ a.timeInForce = GTC
           /\ req.order_type \in MarketSpellings \cup LimitSpellings \cup StopLimitSpellings

C4_Witness ==
    /\ pc = "done"
    /\ req.order_type = <<"S","t","o","p","_","L","i","m","i","t">>
    /\ \E i \in CreateCalls : calls[i].args.type = STOP

---------------------------------------------------------------------------
(* C5 *)

\* C5: one place_order call is one attempt: never two create_order calls,
\* exactly one once place_order has returned for a request that passed
\* validation, and on success the value returned is the exchange's response.
C5_SingleAttempt ==
    /\ Cardinality(CreateCalls) <= 1
    /\ (PlaceOrderReturned /\ validated = "True") =>
          /\ Cardinality(CreateCalls) = 1
          /\ created.t = "ok" => result = created.order
    /\ created.t = "ok" => result.t = "dict"

C5_Witness ==
    /\ pc = "done"
    /\ entry = "place_order"
    /\ validated = "True"
    /\ created.t = "ok"
    /\ result = created.order
    /\ Cardinality(CreateCalls) = 1

---------------------------------------------------------------------------
(* C6 *)

\* the fixed order of the checks
C6_Order == <<"side", "order_type", "quantity", "symbol", "price", "stop_price">>

\* the messages with which each check rejects
C6_Reasons(check) ==
    CASE check = "side" -> {"Invalid side"}
      [] check = "order_type" -> {"Invalid order type"}
      [] check = "quantity" -> {"Quantity must be positive"}
      [] check = "symbol" -> {"Invalid symbol", "Error validating symbol"}
      [] check = "price" -> {"Limit price required for LIMIT and STOP_LIMIT orders"}
      [] check = "stop_price" -> {"Stop price required for STOP_LIMIT orders"}

\* C6: the checks run in the fixed order and stop at the first that fails;
\* the instrument list is asked for at most once, and only after the side,
\* order type and quantity checks passed; a failing validation logs exactly
\* one error line, the reason of the failing check, a passing one none; no
\* create_order call is issued during validation.
C6_OrderedShortCircuit ==
    /\ Len(checks_done) <= 6
    /\ \A i \in 1..Len(checks_done) : checks_done[i] = C6_Order[i]
    /\ Cardinality(InfoCalls) = (IF Len(checks_done) >= 4 THEN 1 ELSE 0)
    /\ InfoCalls # {} =>
          /\ req.side \in BuySellSpellings
          /\ req.order_type \in MarketSpellings \cup LimitSpellings \cup StopLimitSpellings
          /\ ~NonPositive(req.quantity)
    /\ validated = "pending" =>
          /\ ErrorLines("validate_inputs") = {}
          /\ CreateCalls = {}
          /\ pc \in {"v_side", "v_type", "v_quantity", "v_symbol", "v_price",
                     "v_stop_price"} <=> req # NoRequest
    /\ validated = "True" =>
          /\ ErrorLines("validate_inputs") = {}
          /\ checks_done = C6_Order
    /\ validated = "False" =>
          /\ Cardinality(ErrorLines("validate_inputs")) = 1
          /\ \A i \in ErrorLines("validate_inputs") :
                /\ log[i].msg \in C6_Reasons(checks_done[Len(checks_done)])
                /\ i = Len(log)
          /\ req.side \notin BuySellSpellings => checks_done = <<"side">>
          /\ (req.side \in BuySellSpellings /\ NonPositive(req.quantity)) =>
                Len(checks_done) <= 3

C6_Witness ==
    /\ pc = "done"
    /\ validated = "False"
    /\ checks_done = <<"side", "order_type", "quantity", "symbol", "price">>
    /\ Cardinality(InfoCalls) = 1

---------------------------------------------------------------------------
(* C7 *)

\* C7: when the instrument lookup raises or answers without a symbol list,
\* validate_inputs returns False, nothing propagates, and place_order returns
\* None without a create_order call.
C7_LookupErrorRejects ==
    exchange_info.t \in {"raise", "nokey"} =>
        /\ validated = "False"
        /\ raised = ""
        /\ CreateCalls = {}
        /\ pc \in {"po_check", "m_result", "done"}
        /\ PlaceOrderReturned => result = PyNoneOrder
        /\ pc = "done" => PlaceOrderReturned

C7_Witness ==
    /\ pc = "done"
    /\ exchange_info.t = "raise"
    /\ validated = "False"
    /\ result = PyNoneOrder

---------------------------------------------------------------------------
(* C8 *)

\* the number a balance string of the model denotes
C8_Value(s) ==
    CASE s = <<"0">> -> 0
      [] s = <<"7">> -> 7
      [] s = <<"1","2">> -> 12

\* C8: get_account_balance returns 0.0 when the lookup raised or the answer
\* holds no USDT item, and otherwise the balance of the first USDT item; no
\* exception propagates.
C8_BalanceOrZero ==
    [][pc = "gab_return" =>
         /\ raised' = ""
         /\ pc' \in {"done", "m_confirm"}
         /\ IF balance_resp.t = "raise"
               \/ \A i \in 1..Len(balance_resp.items) : balance_resp.items[i].asset # "USDT"
            THEN balance' = Num(0)
            ELSE \E i \in 1..Len(balance_resp.items) :
                    /\ balance_resp.items[i].asset = "USDT"
                    /\ \A j \in 1..(i-1) : balance_resp.items[j].asset # "USDT"
                    /\ balance' = Num(C8_Value(balance_resp.items[i].balance))]_vars

C8_Witness ==
    /\ pc = "done"
    /\ entry = "get_account_balance"
    /\ balance = Num(12)
    /\ Len(log) = 1
    /\ log[1] = Info("get_account_balance", "USDT Balance")

---------------------------------------------------------------------------
(* C9 *)

\* the place of each call in the fixed order of one run of main
C9_Rank(op) ==
    CASE op = "futures_account_balance" -> 1
      [] op = "input" -> 2
      [] op = "futures_exchange_info" -> 3
      [] op = "futures_create_order" -> 4
      [] op = "futures_get_order" -> 5

\* C9: in a run of main the calls happen in the order balance lookup, prompt,
\* instrument lookup, create_order, order-status lookup, each at most once;
\* no instrument lookup and no create_order without the answer y or Y; the
\* order-status lookup only after place_order returned an order.
C9_MainOrder ==
    entry = "main" =>
        /\ \A i, j \in 1..Len(calls) :
              i < j => C9_Rank(calls[i].op) < C9_Rank(calls[j].op)
        /\ Len(calls) >= 1 => calls[1].op = "futures_account_balance"
        /\ Len(calls) >= 2 => calls[2].op = "input"
        /\ Len(calls) >= 3 => confirmation \in {<<"y">>, <<"Y">>}
        /\ confirmation \notin {<<"y">>, <<"Y">>} => req = NoRequest
        /\ \A i \in 1..Len(calls) :
              calls[i].op = "futures_get_order" =>
                 /\ result.t = "dict"
                 /\ created.t = "ok"
                 /\ calls[i].args.orderId = result.orderId
                 /\ calls[i].args.symbol = args.symbol

C9_Witness ==
    /\ entry = "main"
    /\ pc = "done"
    /\ confirmation = <<"Y">>
    /\ Len(calls) = 5
    /\ calls[5].op = "futures_get_order"

---------------------------------------------------------------------------
(* C10 *)

\* C10: every create_order call carries a side that is exactly BUY or SELL.
C10_SideIsEnumValue ==
    \A i \in CreateCalls : calls[i].args.side \in {BUY, SELL}

=============================================================================
